---- MODULE Spec2Model ----
(***************************************************************************)
(* The queued-submission pipeline of scripts/process_queue.cjs and         *)
(* scripts/process_queue.js: Intake (queue_submission main) appends a      *)
(* record to submissions.json, Drain (process_queue main) pops up to       *)
(* MAX_PER_RUN records behind a cooldown gate and splices a fragment for   *)
(* each into audio.html, gifs.html or images.html.                         *)
(*                                                                         *)
(* Text is modelled as sequences of tokens: a URL is a sequence of string  *)
(* tokens ("https://", "h/a", ".", "gif", "?", ...), a line of an issue    *)
(* body is a sequence of string tokens, a document is a sequence of        *)
(* document tokens (text, the opening tags the regexes look for, inserted  *)
(* fragments).  The string operations of the code (split, toLowerCase,     *)
(* match, slice) are computed on these sequences.                          *)
(***************************************************************************)
EXTENDS Integers, Sequences, FiniteSets, TLC

VARIABLES
    now,           \* Date.now(), in ms
    queueFile,     \* submissions.json: missing, or its JSON text
    cooldownFile,  \* .cooldown: missing, or its text, a sequence of digits
    docs,          \* the three target documents: missing, or a sequence of tokens
    logDir,        \* submissions_log/*.json (success audit log)
    failedDir,     \* submissions_log/failed/*.json (failure ledger)
    processedDir,  \* submissions_log/processed/*.json (Drain's debug files)
    drainPc,       \* "none", or "sleeping" while a Drain run awaits sleep(IDLE_WAIT_MS)
    wakeAt,        \* when the pending setTimeout of sleep() fires
    intakes,       \* number of Intake invocations so far
    crashes,       \* number of Drain runs ended by an uncaught exception so far
    ev,            \* the last invocation: what ran, how it ended, what it read
    warned,        \* the URLs the last Drain run warned it could not route, in order
    hist,          \* when a Drain run last got past the gate and ended, and when one
                   \* last changed a document (0: never)
    pdoc0,         \* insertion harness: the document before any insertion
    pdoc,          \* insertion harness: the document now
    phist,         \* insertion harness: the snippets inserted so far, oldest first
    jq,            \* queue file harness: the queue in memory before it is written
    jtext,         \* queue file harness: the text of the file, a sequence of characters
    jback,         \* queue file harness: the queue read back from the file
    jpc,           \* queue file harness: "none", "memory", "written" or "read"
    cPc,           \* overlapping invocations: where each process is, "idle", "read",
                   \* "sleeping" or "done"
    cMem,          \* overlapping invocations: what each process holds in memory
    cPopped        \* overlapping invocations: the records Drain runs removed from
                   \* the queue file, in order

vars == <<now, queueFile, cooldownFile, docs, logDir, failedDir, processedDir,
          drainPc, wakeAt, intakes, crashes, ev, warned, hist, pdoc0, pdoc, phist,
          jq, jtext, jback, jpc, cPc, cMem, cPopped>>

fileVars == <<queueFile, cooldownFile, docs, logDir, failedDir, processedDir>>
harnessVars == <<pdoc0, pdoc, phist, jq, jtext, jback, jpc, cPc, cMem, cPopped>>

-----------------------------------------------------------------------------
(* Program constants *)

COOLDOWN_MS == 3 * 60 * 1000
IDLE_WAIT_MS == 2 * 60 * 1000
MAX_PER_RUN == 5

(* Bounds of the model *)
MaxTicks == 3        \* clock ticks of TickMs a behaviour may take
MaxIntakes == 1      \* Intake invocations in a behaviour
MaxCrashes == 2      \* Drain runs of a behaviour that end by an uncaught exception
                     \* after they changed a document (one that changed none may
                     \* always crash again)
BacklogLen == 6      \* records queued before the behaviour starts, when any are
MaxInserts == 3      \* insertions of the insertion harness
MaxStrLen == 2       \* characters of a field of the queue file harness
MaxFileLen == 2      \* records of a queue of the queue file harness

TickMs == 60 * 1000
StartTime == COOLDOWN_MS + TickMs   \* Date.now() is far past the epoch

Null == "null"

-----------------------------------------------------------------------------
(* Sequence helpers *)

RECURSIVE IndexFrom(_, _, _)
\* least i >= from with P[s[i]]... given as the set of accepted elements; 0 if none
IndexFrom(s, accepted, from) ==
    IF from > Len(s) THEN 0
    ELSE IF s[from] \in accepted THEN from
    ELSE IndexFrom(s, accepted, from + 1)

IndexOf(s, accepted) == IndexFrom(s, accepted, 1)

RECURSIVE LastIndexFrom(_, _, _)
LastIndexFrom(s, accepted, from) ==
    IF from < 1 THEN 0
    ELSE IF s[from] \in accepted THEN from
    ELSE LastIndexFrom(s, accepted, from - 1)

LastIndexOf(s, accepted) == LastIndexFrom(s, accepted, Len(s))

Slice(s, from, to) == SubSeq(s, from, to)   \* 1-based, inclusive

-----------------------------------------------------------------------------
(* URLs and routing *)

KnownExt == {"jpg", "jpeg", "png", "webp", "gif", "mp3"}

\* String.prototype.toLowerCase on one token
LowerTok(t) ==
    CASE t = "GIF" -> "gif"
      [] t = "MP3" -> "mp3"
      [] t = "JPG" -> "jpg"
      [] OTHER -> t

toLowerCase(s) == [i \in 1..Len(s) |-> LowerTok(s[i])]

\* fileUrl.split("?")[0]
BeforeQuery(url) ==
    LET q == IndexOf(url, {"?"})
    IN  IF q = 0 THEN url ELSE Slice(url, 1, q - 1)

\* s.split(".").pop()
AfterLastDot(s) ==
    LET d == LastIndexOf(s, {"."})
    IN  Slice(s, d + 1, Len(s))

\* TARGET_MAP[ext]: an own property, a property inherited from Object.prototype
\* (a function or an object, truthy and not a string), or undefined
InheritedProps == {"constructor", "__proto__"}
NotAString == "[Function: Object]"

TARGET_MAP(ext) ==
    CASE ext = "mp3" -> "audio.html"
      [] ext = "gif" -> "gifs.html"
      [] ext \in {"jpg", "jpeg", "png", "webp"} -> "images.html"
      [] ext \in InheritedProps -> NotAString
      [] OTHER -> Null

TargetLookup(ext) ==
    IF Len(ext) = 1 THEN TARGET_MAP(ext[1]) ELSE Null

chooseTargetByUrl(fileUrl) ==
    IF fileUrl = <<>> THEN Null
    ELSE LET lower == toLowerCase(BeforeQuery(fileUrl))
             ext == AfterLastDot(lower)
         IN  TargetLookup(ext)

\* fileUrl.match(/\.(jpg|jpeg|png|webp|gif|mp3)(?:$|[?#])/i): index of the
\* extension token of the first match, 0 if none
RECURSIVE ExtBeforeEndOrQuery(_, _)
ExtBeforeEndOrQuery(url, i) ==
    IF i + 1 > Len(url) THEN 0
    ELSE IF /\ url[i] = "."
            /\ LowerTok(url[i + 1]) \in KnownExt
            /\ (i + 1 = Len(url) \/ url[i + 2] \in {"?", "#"})
         THEN i + 1
         ELSE ExtBeforeEndOrQuery(url, i + 1)

\* Drain's target of a record: process_queue main, first copy
DecideTargetV1(sub) ==
    LET fileUrl == sub.file_url
        target == chooseTargetByUrl(fileUrl)
    IN  IF target # Null THEN target
        ELSE LET found == ExtBeforeEndOrQuery(fileUrl, 1)
             IN  IF found # 0 THEN TARGET_MAP(LowerTok(fileUrl[found])) ELSE Null

\* Drain's target of a record: process_queue main, second copy (records carry
\* no `type` field, so the second operand of || is null)
DecideTargetV2(sub) == chooseTargetByUrl(sub.file_url)

DecideTarget(impl, sub) ==
    IF impl = "v1" THEN DecideTargetV1(sub) ELSE DecideTargetV2(sub)

DocNames == {"audio.html", "gifs.html", "images.html"}

-----------------------------------------------------------------------------
(* Submission records *)

Sub(username, name, fileUrl, description, date) ==
    [username |-> username, name |-> name, file_url |-> fileUrl,
     description |-> description, date |-> date]

-----------------------------------------------------------------------------
(* HTML: documents and snippets are sequences of tokens *)

Tok(t, id, src, text, ts) == [t |-> t, id |-> id, src |-> src, text |-> text, ts |-> ts]

Text(s) == Tok("text", "", <<>>, s, 0)
OpenDiv(id) == Tok("div", id, <<>>, "", 0)      \* <div id="...">
CloseDiv == Tok("/div", "", <<>>, "", 0)
CloseBody == Tok("/body", "", <<>>, "", 0)
NL == Tok("\n", "", <<>>, "", 0)

\* s.replace(/[^a-zA-Z0-9_-]/g, "-")
SanitizeId(s) ==
    CASE s = "funny cat" -> "funny-cat"
      [] s = "<b>" -> "-b-"
      [] OTHER -> s

\* s.replace(/</g, "&lt;").replace(/>/g, "&gt;")
EscapeAngle(s) ==
    CASE s = "<b>" -> "&lt;b&gt;"
      [] s = "<i title=\"x\">" -> "&lt;i title=\"x\"&gt;"
      [] OTHER -> s

\* s.replace(/"/g, "&quot;")
EscapeQuote(s) ==
    CASE s = "<i title=\"x\">" -> "<i title=&quot;x&quot;>"
      [] s = "&lt;i title=\"x\"&gt;" -> "&lt;i title=&quot;x&quot;&gt;"
      [] OTHER -> s

\* a || b || c on strings: the first that is not empty
Or3(a, b, c) == IF a # "" THEN a ELSE IF b # "" THEN b ELSE c

\* buildHtmlSnippet, first copy: the preset template
buildHtmlSnippetV1(sub) ==
    LET nameId == SanitizeId(Or3(sub.name, sub.username, "submission"))
        fileUrl == sub.file_url
        desc == EscapeAngle(sub.description)
    IN  << NL,
           OpenDiv(nameId),
           Tok("img", "", fileUrl, EscapeQuote(desc), 0),
           Tok("p", "", <<>>, desc, 0),
           Tok("a", "", fileUrl, "download", 0),
           CloseDiv,
           NL >>

\* fileUrl.toLowerCase().endsWith(".mp3")
EndsWithMp3(fileUrl) ==
    /\ Len(fileUrl) >= 2
    /\ fileUrl[Len(fileUrl) - 1] = "."
    /\ LowerTok(fileUrl[Len(fileUrl)]) = "mp3"

\* buildHtmlSnippet, second copy: the submission card; t is new Date()
buildHtmlSnippetV2(sub, t) ==
    LET username == Or3(sub.username, "unknown", "unknown")
        fileUrl == sub.file_url
        desc == sub.description
        pfp == <<"https://github.com/", username, ".png">>
        media == IF EndsWithMp3(fileUrl)
                 THEN Tok("audio", "", fileUrl, "", 0)
                 ELSE Tok("img", "", fileUrl, EscapeQuote(desc), 0)
    IN  << NL,
           Tok("div.submission", "", <<>>, "", 0),
           Tok("img.pfp", "", pfp, username, 0),
           Tok("strong", "", <<>>, username, 0),
           Tok("span", "", <<>>, "", t),
           media,
           Tok("p", "", <<>>, EscapeAngle(desc), 0),
           CloseDiv,
           NL >>

buildHtmlSnippet(impl, sub, t) ==
    IF impl = "v1" THEN buildHtmlSnippetV1(sub) ELSE buildHtmlSnippetV2(sub, t)

\* html.match(/<div\s+[^>]*id=["']submissions["'][^>]*>/i): the first such tag
IsSubmissionsTag(tok) == tok.t = "div" /\ tok.id = "submissions"
\* html.match(/<div\s+[^>]*id=["']content["'][^>]*>/i)
IsContentTag(tok) == tok.t = "div" /\ tok.id = "content"

RECURSIVE MatchFrom(_, _, _)
MatchFrom(html, kind, i) ==
    IF i > Len(html) THEN 0
    ELSE IF \/ kind = "submissions" /\ IsSubmissionsTag(html[i])
            \/ kind = "content" /\ IsContentTag(html[i])
            \/ kind = "/body" /\ html[i] = CloseBody
         THEN i
         ELSE MatchFrom(html, kind, i + 1)

Match(html, kind) == MatchFrom(html, kind, 1)

\* A file of the document root: missing, or its text
NoDoc == [exists |-> FALSE, html |-> <<>>]
Doc(html) == [exists |-> TRUE, html |-> html]

\* The splice that resumes one place too far: html.slice(insertPos + 1)
SpliceSkipping(html, insertPos, snippet) ==
    Slice(html, 1, insertPos) \o <<NL>> \o snippet \o <<NL>>
        \o Slice(html, insertPos + 2, Len(html))

\* html.slice(0, insertPos) + "\n" + snippet + "\n" + html.slice(insertPos);
\* insertPos counts the tokens before the insertion point
Splice(html, insertPos, snippet) ==
    Slice(html, 1, insertPos) \o <<NL>> \o snippet \o <<NL>>
        \o Slice(html, insertPos + 1, Len(html))

\* insertIntoHtmlAtTop, first copy: [ok, doc]; prefers div#submissions, falls
\* back to div#content, then to the place before </body>
insertIntoHtmlAtTopV1(doc, snippet) ==
    IF ~doc.exists THEN [ok |-> FALSE, doc |-> doc]
    ELSE LET html == doc.html
             m == Match(html, "submissions")
             c == Match(html, "content")
             bodyClose == Match(html, "/body")
         IN  IF m # 0 THEN [ok |-> TRUE, doc |-> Doc(Splice(html, m, snippet))]
             ELSE IF c # 0 THEN [ok |-> TRUE, doc |-> Doc(Splice(html, c, snippet))]
             ELSE IF bodyClose = 0 THEN [ok |-> FALSE, doc |-> doc]
             ELSE [ok |-> TRUE, doc |-> Doc(Splice(html, bodyClose - 1, snippet))]

\* insertIntoHtmlAtTop, second copy: [ok, doc]; div#submissions only
insertIntoHtmlAtTopV2(doc, snippet) ==
    IF ~doc.exists THEN [ok |-> FALSE, doc |-> doc]
    ELSE LET html == doc.html
             m == Match(html, "submissions")
         IN  IF m = 0 THEN [ok |-> FALSE, doc |-> doc]
             ELSE [ok |-> TRUE, doc |-> Doc(Splice(html, m, snippet))]

insertIntoHtmlAtTop(impl, doc, snippet) ==
    IF impl = "v1" THEN insertIntoHtmlAtTopV1(doc, snippet)
    ELSE insertIntoHtmlAtTopV2(doc, snippet)

-----------------------------------------------------------------------------
(* The queue file: JSON text *)

NoQueueFile == [exists |-> FALSE, kind |-> "", items |-> <<>>]

\* JSON.stringify(submissions, null, 2) of an array of records
JSONstringify(submissions) == [exists |-> TRUE, kind |-> "array", items |-> submissions]

\* A queue file that holds something else: text that is no JSON, or JSON
\* that is no array
CorruptQueueFiles ==
    {[exists |-> TRUE, kind |-> k, items |-> <<>>] : k \in {"garbage", "object"}}

\* The check that creates nothing
ensureFileExistsNot(file) == file

\* ensureFileExists(SUBMISSIONS_FILE, "[]")
ensureFileExists(file) == IF file.exists THEN file ELSE JSONstringify(<<>>)

\* JSON.parse of the file with the guards of process_queue main and of
\* queue_submission main (cjs, esm): anything but an array of records is []
ParseQueue(file) ==
    IF file.exists /\ file.kind = "array" THEN file.items ELSE <<>>

\* The persisted queue: what the next invocation will read
Queue == ParseQueue(queueFile)

-----------------------------------------------------------------------------
(* The cooldown file: decimal text *)

NoCooldownFile == [exists |-> FALSE, text |-> <<>>]

RECURSIVE String(_)
\* String(ts) for ts >= 0: the decimal digits
String(n) == IF n < 10 THEN <<n>> ELSE Append(String(n \div 10), n % 10)

RECURSIVE ParseDigits(_, _)
ParseDigits(txt, acc) ==
    IF txt = <<>> THEN acc ELSE ParseDigits(Tail(txt), 10 * acc + Head(txt))

\* parseInt(txt, 10) || 0
parseInt(txt) == IF txt = <<>> THEN 0 ELSE ParseDigits(txt, 0)

readCooldown == IF ~cooldownFile.exists THEN 0 ELSE parseInt(cooldownFile.text)

\* The write that stores the time since the last run in the place of the time
writeCooldownElapsed(ts) == [exists |-> TRUE, text |-> String(ts - readCooldown)]

writeCooldown(ts) == [exists |-> TRUE, text |-> String(ts)]

\* The gate with the wrong window: now - last < IDLE_WAIT_MS
CooldownActiveIdle(t, last) == t - last < IDLE_WAIT_MS

\* now - last < COOLDOWN_MS
CooldownActive(t, last) == t - last < COOLDOWN_MS

-----------------------------------------------------------------------------
(* Log directories: a set of files, one per name *)

FileName(ts, username) == [ts |-> ts, username |-> username]

\* fs.writeFileSync(path.join(dir, fname), ...): creates or overwrites
WriteFile(dir, name, content) ==
    {f \in dir : f.name # name} \cup {[name |-> name, content |-> content]}

-----------------------------------------------------------------------------
(* Intake: queue_submission *)

\* new Date().toISOString(), and a date given as text
IsoDate(t) == [text |-> "", ts |-> t]
TextDate(s) == [text |-> s, ts |-> 0]

EmptySub == Sub("", "", <<>>, "", TextDate(""))
NoSubmission == [ok |-> FALSE, sub |-> EmptySub]      \* null
Submission(sub) == [ok |-> TRUE, sub |-> sub]

Schemes == {"http://", "https://"}

\* body.trim().split(/\r?\n/).map(l => l.trim()).filter(Boolean): a body is
\* given as its lines, an empty line as <<>>
NonEmptyLines(body) == SelectSeq(body, LAMBDA l : l # <<>>)

\* lines[0].match(/^\(([^)]+)\)\s*\[(.+)\]$/): [ok, name, date]; the name and
\* the date are one token each
HeaderMatch(line) ==
    LET k == IF Len(line) >= 4 /\ line[4] = " " THEN 5 ELSE 4
    IN  IF /\ Len(line) = k + 2
           /\ line[1] = "("
           /\ line[2] \notin {"(", ")"}
           /\ line[3] = ")"
           /\ line[k] = "["
           /\ line[k + 2] = "]"
        THEN [ok |-> TRUE, name |-> line[2], date |-> line[k + 1]]
        ELSE [ok |-> FALSE, name |-> "", date |-> ""]

RECURSIVE LastExtIn(_, _, _)
\* greatest e in lo..hi with line[e-1] = "." and line[e] a known extension
LastExtIn(line, lo, hi) ==
    IF hi < lo THEN 0
    ELSE IF line[hi - 1] = "." /\ LowerTok(line[hi]) \in KnownExt THEN hi
    ELSE LastExtIn(line, lo, hi - 1)

\* fileLine.match(/https?:\/\/\S+\.(jpg|jpeg|png|webp|gif|mp3)/i)[0], <<>> if
\* there is no match: from the first scheme to the last known extension of
\* the run of non-space characters
PlainUrlMatch(line) ==
    LET s == IndexOf(line, Schemes)
        sp == IF s = 0 THEN 0 ELSE IndexFrom(line, {" "}, s)
        hi == IF sp = 0 THEN Len(line) ELSE sp - 1
        e == IF s = 0 THEN 0 ELSE LastExtIn(line, s + 3, hi)
    IN  IF e = 0 THEN <<>> ELSE Slice(line, s, e)

\* fileLine.match(/!\[[^\]]*\]\((https?:\/\/\S+\.(jpg|...))\)/i)[1]
MarkdownUrlMatch(line) ==
    LET a == IndexOf(line, {"![alt]("})
        inner == IF a = 0 THEN <<>> ELSE PlainUrlMatch(Slice(line, a + 1, Len(line)))
    IN  IF /\ a # 0
           /\ inner # <<>>
           /\ Len(line) > a + Len(inner)
           /\ line[a + 1] \in Schemes
           /\ line[a + Len(inner) + 1] = ")"
        THEN inner ELSE <<>>

\* parseIssueBody of process_queue.cjs (both copies)
parseIssueBody(username, body) ==
    LET lines == NonEmptyLines(body)
    IN  IF Len(lines) < 2 THEN NoSubmission
        ELSE LET nameMatch == HeaderMatch(lines[1])
                 plain == PlainUrlMatch(lines[2])
                 url == IF plain # <<>> THEN plain ELSE MarkdownUrlMatch(lines[2])
                 desc == IF Len(lines) >= 3 THEN lines[3][1] ELSE ""
             IN  IF ~nameMatch.ok THEN NoSubmission
                 ELSE IF url = <<>> THEN NoSubmission
                 ELSE Submission(Sub(username, nameMatch.name, url, desc,
                                     TextDate(nameMatch.date)))

RECURSIVE Flatten(_)
\* the text of a body: its lines, a line break between two
Flatten(body) ==
    IF body = <<>> THEN <<>>
    ELSE IF Len(body) = 1 THEN body[1]
    ELSE body[1] \o <<"\n">> \o Flatten(Tail(body))

RECURSIVE SplitAt(_, _, _)
\* text.split(sep) for a one-token separator; cur is the piece being read
SplitAt(text, sep, cur) ==
    IF text = <<>> THEN <<cur>>
    ELSE IF Head(text) \in sep THEN <<cur>> \o SplitAt(Tail(text), sep, <<>>)
    ELSE SplitAt(Tail(text), sep, Append(cur, Head(text)))

\* body.trim().split(/\\r?\\n/) of process_queue.js: the pattern matches a
\* backslash, an optional r, a backslash and an n, never a line break
BackslashN == {"\\\\n", "\\r\\n"}
JsLines(body) ==
    LET pieces == SplitAt(Flatten(body), BackslashN, <<>>)
    IN  SelectSeq(pieces, LAMBDA l : SelectSeq(l, LAMBDA c : c \notin {"\n", " "}) # <<>>)

\* parseIssueBody of process_queue.js. nameLine.match(/^\\(([^)]+)\\)/) wants
\* a backslash, the name, a backslash; fileLine.match(/(https?:\\/\\/\\S+\\.(?:jpg|...))/i)
\* wants a backslash before each slash, before a run of S and before the dot
parseIssueBodyJs(username, body, t) ==
    LET lines == JsLines(body)
    IN  IF Len(lines) < 2 THEN NoSubmission
        ELSE LET nameLine == lines[1]
                 fileLine == lines[2]
                 s == IndexOf(fileLine, {"http:\\/\\/", "https:\\/\\/"})
             IN  IF ~(Len(nameLine) >= 3 /\ nameLine[1] = "\\" /\ nameLine[3] = "\\")
                 THEN NoSubmission
                 ELSE IF ~(/\ s # 0
                           /\ Len(fileLine) >= s + 3
                           /\ fileLine[s + 1] = "\\S"
                           /\ fileLine[s + 2] = "\\."
                           /\ LowerTok(fileLine[s + 3]) \in KnownExt)
                 THEN NoSubmission
                 ELSE Submission(Sub(username, nameLine[2], Slice(fileLine, s, s + 3),
                                     IF Len(lines) >= 3 THEN lines[3][1] ELSE "",
                                     IsoDate(t)))

\* process.env.USERNAME || "unknown"
EnvUsername(u) == IF u = "" THEN "unknown" ELSE u

\* newSubmission of queue_submission main
NewSubmission(impl, in, t) ==
    LET USERNAME == EnvUsername(in.username)
    IN  IF in.body # <<>>
        THEN IF impl = "js" THEN parseIssueBodyJs(USERNAME, in.body, t)
             ELSE parseIssueBody(USERNAME, in.body)
        ELSE IF in.fileUrl # <<>>
        THEN Submission(Sub(USERNAME, USERNAME, in.fileUrl, in.description, IsoDate(t)))
        ELSE NoSubmission

\* submissions.push(newSubmission)
\* submissions.unshift(sub) in the place of submissions.push(sub)
pushFront(submissions, sub) == <<sub>> \o submissions

push(submissions, sub) == Append(submissions, sub)

-----------------------------------------------------------------------------
(* Inputs of the model *)

Url(ext) == <<"https://", "h/a", ".", ext>>
QueryUrl(ext, qext) == <<"https://", "h/a", ".", ext, "?", "x=", ".", qext>>

Header == <<"(", "alice", ")", " ", "[", "2024-01-01", "]">>

Input(username, body, fileUrl, description) ==
    [username |-> username, body |-> body, fileUrl |-> fileUrl,
     description |-> description]

IntakeInputs ==
    { \* the grammar: header, URL, description
      Input("octocat", <<Header, Url("gif"), <<"funny cat">>>>, <<>>, ""),
      \* line 1 without its parentheses, and an explicit fileUrl beside the body
      Input("octocat", <<<<"alice", " ", "[", "2024-01-01", "]">>, Url("gif")>>,
            Url("gif"), ""),
      \* explicit fields: an extension that names a property TARGET_MAP inherits,
      \* and one it does not hold (Backlog holds the records of further inputs)
      Input("octocat", <<>>, Url("constructor"), ""),
      Input("octocat", <<>>, Url("bmp"), ""),
      \* neither a body nor a fileUrl
      Input("octocat", <<>>, <<>>, "") }

\* "cjs" stands for both copies of queue_submission main in process_queue.cjs
\* (the second, for ESM loaders, repeats the first statement by statement);
\* "js" is the copy in process_queue.js
IntakeImpls == {"cjs", "js"}
DrainImpls == {"v1", "v2"}

Marked == Doc(<<Text("<body>"), OpenDiv("submissions"), Text("old card"),
                CloseDiv, CloseBody>>)
Unmarked == Doc(<<Text("<body>"), OpenDiv("content"), Text("old card"),
                  CloseDiv, CloseBody>>)

InitDocs ==
    { [d \in DocNames |-> Marked],
      [d \in DocNames |-> IF d = "images.html" THEN Marked
                          ELSE IF d = "gifs.html" THEN Unmarked ELSE NoDoc] }

-----------------------------------------------------------------------------
(* The last invocation *)

Ev(op, impl, outcome, exit, n, reads) ==
    [op |-> op, impl |-> impl, outcome |-> outcome, exit |-> exit, n |-> n,
     reads |-> reads]

-----------------------------------------------------------------------------
(* Intake: queue_submission main *)

\* What main leaves behind for a rejected input
RejectedFiles(impl, in, file) ==
    /\ queueFile' = file
    /\ failedDir' = IF impl = "js" THEN failedDir
                    ELSE WriteFile(failedDir, FileName(now, EnvUsername(in.username)),
                                   [username |-> EnvUsername(in.username), body |-> in.body])
    /\ UNCHANGED logDir

\* The logging that keeps one file, written over by every accepted record
AcceptedFilesOneLog(sub, submissions) ==
    /\ logDir' = {[name |-> FileName(now, sub.username), content |-> sub]}
    /\ queueFile' = JSONstringify(push(submissions, sub))
    /\ UNCHANGED failedDir

\* What main leaves behind for an accepted record
AcceptedFiles(sub, submissions) ==
    /\ logDir' = WriteFile(logDir, FileName(now, sub.username), sub)
    /\ queueFile' = JSONstringify(push(submissions, sub))
    /\ UNCHANGED failedDir

\* Two runs of queue_submission never read the same millisecond off the clock
ClockMovedOn(in) ==
    \A f \in logDir \cup failedDir :
        f.name = FileName(now, EnvUsername(in.username)) => FALSE

Intake(impl, in) ==
    /\ intakes < MaxIntakes
    /\ ClockMovedOn(in)
    /\ LET file == ensureFileExists(queueFile)
           parses == file.kind = "array"
           submissions == ParseQueue(file)
           new == NewSubmission(impl, in, now)
       IN  IF impl = "js" /\ ~parses
           THEN \* JSON.parse or submissions.push throws, nothing catches it
                /\ queueFile' = file
                /\ logDir' = IF new.ok /\ file.kind = "object"
                             THEN WriteFile(logDir, FileName(now, new.sub.username), new.sub)
                             ELSE logDir
                /\ UNCHANGED failedDir
                /\ ev' = Ev("intake", "", "threw", 1, 0, {"submissions.json"})
           ELSE IF ~new.ok
           THEN /\ RejectedFiles(impl, in, file)
                /\ ev' = Ev("intake", "", "rejected", 0, 0, {"submissions.json"})
           ELSE /\ AcceptedFiles(new.sub, submissions)
                /\ ev' = Ev("intake", "", "accepted", 0, 0, {"submissions.json"})
    /\ intakes' = intakes + 1
    /\ UNCHANGED <<now, cooldownFile, docs, processedDir, drainPc, wakeAt, crashes, warned,
                   hist>>
    /\ UNCHANGED harnessVars

-----------------------------------------------------------------------------
(* Drain: process_queue main *)

\* The debug file the first copy writes for a record
Debug(sub, target, targetExists, inserted) ==
    [username |-> Or3(sub.username, "unknown", "unknown"),
     name |-> Or3(sub.name, sub.username, Null),
     fileUrl |-> sub.file_url, decidedTarget |-> target,
     targetExists |-> targetExists, inserted |-> inserted]

WriteDebug(impl, pdir, t, debug) ==
    IF impl = "v1" THEN WriteFile(pdir, FileName(t, debug.username), debug) ELSE pdir

RECURSIVE ProcessBatch(_, _, _, _)
\* for (const sub of toProcess) { ... }: st is [docs, processed, thrown, reads, warned]
\* before the records of batch; path.join(REPO_ROOT, target) throws a
\* TypeError when target is not a string, and the loop catches nothing
ProcessBatch(impl, batch, t, st) ==
    IF batch = <<>> \/ st.thrown THEN st
    ELSE LET sub == Head(batch)
             target == DecideTarget(impl, sub)
         IN  IF target = Null
             THEN ProcessBatch(impl, Tail(batch), t,
                     [st EXCEPT !.processed =
                         WriteDebug(impl, @, t, Debug(sub, Null, FALSE, FALSE)),
                               !.warned = Append(@, sub.file_url)])
             ELSE IF target \notin DocNames
             THEN [st EXCEPT !.thrown = TRUE]
             ELSE LET r == insertIntoHtmlAtTop(impl, st.docs[target],
                                               buildHtmlSnippet(impl, sub, t))
                  IN  ProcessBatch(impl, Tail(batch), t,
                         [docs |-> [st.docs EXCEPT ![target] = r.doc],
                          processed |-> WriteDebug(impl, st.processed, t,
                                 Debug(sub, target, st.docs[target].exists, r.ok)),
                          thrown |-> FALSE,
                          reads |-> st.reads \cup {target},
                          warned |-> st.warned])

\* submissions.splice(0, MAX_PER_RUN): the removed head, and what is left
toProcessOf(submissions) ==
    Slice(submissions, 1, IF Len(submissions) < MAX_PER_RUN THEN Len(submissions)
                          ELSE MAX_PER_RUN)
remainingOf(submissions) ==
    Slice(submissions, Len(toProcessOf(submissions)) + 1, Len(submissions))

\* main up to its return or its await
Drain(impl) ==
    /\ drainPc = "none"
    /\ LET last == readCooldown
           file == ensureFileExists(queueFile)
           submissions == ParseQueue(file)
           toProcess == toProcessOf(submissions)
           st == ProcessBatch(impl, toProcess, now,
                    [docs |-> docs, processed |-> processedDir, thrown |-> FALSE,
                     reads |-> {".cooldown", "submissions.json"}, warned |-> <<>>])
       IN  IF CooldownActive(now, last)
           THEN /\ UNCHANGED <<fileVars, drainPc, wakeAt, crashes, hist>>
                /\ warned' = <<>>
                /\ ev' = Ev("drain", impl, "skip", 0, 0, {".cooldown"})
           ELSE IF Len(submissions) = 0
           THEN /\ queueFile' = file
                /\ drainPc' = "sleeping"
                /\ wakeAt' = now + IDLE_WAIT_MS
                /\ UNCHANGED <<cooldownFile, docs, logDir, failedDir, processedDir, crashes,
                               hist>>
                /\ warned' = <<>>
                /\ ev' = Ev("drain", impl, "sleep", 0, 0, {".cooldown", "submissions.json"})
           ELSE /\ st.thrown => (crashes < MaxCrashes \/ st.docs = docs)
                /\ crashes' = IF st.thrown /\ crashes < MaxCrashes THEN crashes + 1
                              ELSE crashes
                /\ docs' = st.docs
                /\ processedDir' = st.processed
                /\ queueFile' = IF st.thrown THEN file
                                ELSE JSONstringify(remainingOf(submissions))
                /\ cooldownFile' = IF st.thrown THEN cooldownFile ELSE writeCooldown(now)
                /\ hist' = [ended |-> now,
                            mutated |-> IF st.docs # docs THEN now ELSE hist.mutated]
                /\ UNCHANGED <<logDir, failedDir, drainPc, wakeAt>>
                /\ warned' = st.warned
                /\ ev' = IF st.thrown
                         THEN Ev("drain", impl, "throw", 1, 0, st.reads)
                         ELSE Ev("drain", impl, "process", 0, Len(toProcess), st.reads)
    /\ UNCHANGED <<now, intakes>>
    /\ UNCHANGED harnessVars

\* The wake-up that stores the time the run started instead of Date.now()
DrainWakeStale ==
    /\ drainPc = "sleeping"
    /\ now >= wakeAt
    /\ cooldownFile' = writeCooldown(wakeAt - IDLE_WAIT_MS)
    /\ drainPc' = "none"
    /\ hist' = [hist EXCEPT !.ended = now]
    /\ ev' = Ev("drain", "", "idle", 0, 0, {".cooldown", "submissions.json"})
    /\ UNCHANGED <<now, queueFile, docs, logDir, failedDir, processedDir, wakeAt, intakes,
                   crashes, warned>>
    /\ UNCHANGED harnessVars

\* The wake-up that does not wait for the timer
DrainWakeEarly ==
    /\ drainPc = "sleeping"
    /\ cooldownFile' = writeCooldown(now)
    /\ drainPc' = "none"
    /\ hist' = [hist EXCEPT !.ended = now]
    /\ ev' = Ev("drain", "", "idle", 0, 0, {".cooldown", "submissions.json"})
    /\ UNCHANGED <<now, queueFile, docs, logDir, failedDir, processedDir, wakeAt, intakes,
                   crashes, warned>>
    /\ UNCHANGED harnessVars

\* main after await sleep(IDLE_WAIT_MS): writeCooldown() and return
DrainWake ==
    /\ drainPc = "sleeping"
    /\ now >= wakeAt
    /\ cooldownFile' = writeCooldown(now)
    /\ drainPc' = "none"
    /\ hist' = [hist EXCEPT !.ended = now]
    /\ ev' = Ev("drain", "", "idle", 0, 0, {".cooldown", "submissions.json"})
    /\ UNCHANGED <<now, queueFile, docs, logDir, failedDir, processedDir, wakeAt, intakes,
                   crashes, warned>>
    /\ UNCHANGED harnessVars

\* Time passes
Tick ==
    /\ now + TickMs <= StartTime + MaxTicks * TickMs
    /\ now' = now + TickMs
    /\ UNCHANGED <<fileVars, drainPc, wakeAt, intakes, crashes, ev, warned, hist>>
    /\ UNCHANGED harnessVars

-----------------------------------------------------------------------------
(* The pipeline *)

\* A queue left by earlier Intake runs, with their audit log: record i was
\* accepted at BacklogTime(i)
BacklogTime(i) == StartTime - TickMs + 1000 * i
BacklogInput(i) ==
    CASE i % 3 = 1 -> Input("octocat", <<Header, Url("gif"), <<"funny cat">>>>, <<>>, "")
      [] i % 3 = 2 -> Input("octocat", <<>>, Url("MP3"), "<b>")
      [] OTHER -> Input("octocat", <<>>, QueryUrl("bmp", "jpg"), "")
Backlog == [i \in 1..BacklogLen |-> NewSubmission("cjs", BacklogInput(i), BacklogTime(i)).sub]
BacklogLog ==
    {[name |-> FileName(BacklogTime(i), Backlog[i].username), content |-> Backlog[i]] :
        i \in 1..BacklogLen}

NoFileHarness ==
    /\ jq = <<>>
    /\ jtext = <<>>
    /\ jback = <<>>
    /\ jpc = "none"

\* The processes of the overlapping invocations: one Intake run, two Drain runs
Procs == {"intake", "drain1", "drain2"}
DrainProcs == {"drain1", "drain2"}

\* Nothing read yet
NoMem == [impl |-> "", in |-> Input("", <<>>, <<>>, ""), file |-> NoQueueFile, wake |-> 0]

NoOverlap ==
    /\ cPc = [p \in Procs |-> "idle"]
    /\ cMem = [p \in Procs |-> NoMem]
    /\ cPopped = <<>>

NoHarness ==
    /\ pdoc0 = NoDoc
    /\ pdoc = NoDoc
    /\ phist = <<>>
    /\ NoFileHarness
    /\ NoOverlap

Init ==
    /\ now = StartTime
    /\ \/ queueFile = NoQueueFile /\ logDir = {}
       \/ queueFile = JSONstringify(Backlog) /\ logDir = BacklogLog
       \/ queueFile \in CorruptQueueFiles /\ logDir = {}
    /\ cooldownFile = NoCooldownFile
    /\ docs \in InitDocs
    /\ failedDir = {}
    /\ processedDir = {}
    /\ drainPc = "none"
    /\ wakeAt = 0
    /\ intakes = 0
    /\ crashes = 0
    /\ hist = [ended |-> 0, mutated |-> 0]
    /\ ev = Ev("none", "", "", 0, 0, {})
    /\ warned = <<>>
    /\ NoHarness

IntakeStep == \E impl \in IntakeImpls, in \in IntakeInputs : Intake(impl, in)
DrainStep == \E impl \in DrainImpls : Drain(impl)

Next ==
    \/ IntakeStep
    \/ DrainStep
    \/ DrainWake
    \/ Tick

Spec == Init /\ [][Next]_vars

-----------------------------------------------------------------------------
(* The insertion harness: insertIntoHtmlAtTop applied again and again to one
   document, from every document of HarnessDocs *)

BodyOnly == Doc(<<Text("<body>"), Text("old card"), CloseBody>>)
MarkedInContent == Doc(<<Text("<body>"), OpenDiv("content"), Text("intro"),
                         OpenDiv("submissions"), Text("old card"), CloseDiv,
                         CloseDiv, CloseBody>>)
Fragmentary == Doc(<<Text("old card")>>)

HarnessDocs == {Marked, Unmarked, BodyOnly, MarkedInContent, Fragmentary, NoDoc}

HarnessSubs ==
    { Sub("octocat", "alice", Url("gif"), "funny cat", TextDate("2024-01-01")),
      Sub("octocat", "submissions", Url("png"), "<b>", TextDate("2024-01-01")),
      Sub("hubot", "hubot", Url("MP3"), "", IsoDate(StartTime)),
      Sub("hubot", "hubot", QueryUrl("mp3", "jpg"), "", IsoDate(StartTime)) }

HarnessInsert(impl, sub) ==
    /\ Len(phist) < MaxInserts
    /\ LET snippet == buildHtmlSnippet(impl, sub, now)
           r == insertIntoHtmlAtTop(impl, pdoc, snippet)
       IN  /\ r.ok
           /\ pdoc' = r.doc
           /\ phist' = Append(phist, snippet)
    /\ UNCHANGED pdoc0
    /\ UNCHANGED <<now, fileVars, drainPc, wakeAt, intakes, crashes, ev, warned, hist>>
    /\ UNCHANGED <<jq, jtext, jback, jpc, cPc, cMem, cPopped>>

InsertInit ==
    /\ now = StartTime
    /\ queueFile = NoQueueFile
    /\ logDir = {}
    /\ cooldownFile = NoCooldownFile
    /\ docs = [d \in DocNames |-> Marked]
    /\ failedDir = {}
    /\ processedDir = {}
    /\ drainPc = "none"
    /\ wakeAt = 0
    /\ intakes = 0
    /\ crashes = 0
    /\ hist = [ended |-> 0, mutated |-> 0]
    /\ ev = Ev("none", "", "", 0, 0, {})
    /\ warned = <<>>
    /\ pdoc0 \in HarnessDocs
    /\ pdoc = pdoc0
    /\ phist = <<>>
    /\ NoFileHarness
    /\ NoOverlap

InsertV1 == \E sub \in HarnessSubs : HarnessInsert("v1", sub)
InsertV2 == \E sub \in HarnessSubs : HarnessInsert("v2", sub)

InsertNext ==
    \/ InsertV1
    \/ InsertV2

InsertSpec == InsertInit /\ [][InsertNext]_vars

-----------------------------------------------------------------------------
(* The text of the queue file.  JSON.stringify(submissions, null, 2) writes
   the array as characters and JSON.parse reads them back; a string value is
   a sequence of characters, a key is one token between its quotes. *)

Quote == "\""
Backslash == "\\"
Newline == "\n"

JsonChars == {"n", Quote, Backslash, Newline}

JsonKeys == <<"username", "name", "file_url", "description", "date">>
JsonKeySet == {JsonKeys[k] : k \in 1..Len(JsonKeys)}

\* the two characters JSON.stringify writes for a character it must escape
JsonEscapeQuoteOnly(c) == IF c = Quote THEN <<Backslash, Quote>> ELSE <<c>>
JsonEscape(c) ==
    IF c = Quote THEN <<Backslash, Quote>>
    ELSE IF c = Backslash THEN <<Backslash, Backslash>>
    ELSE IF c = Newline THEN <<Backslash, "n">>
    ELSE <<c>>

RECURSIVE JsonEscapeAll(_)
JsonEscapeAll(str) ==
    IF str = <<>> THEN <<>>
    ELSE JsonEscape(Head(str)) \o JsonEscapeAll(Tail(str))

JsonString(str) == <<Quote>> \o JsonEscapeAll(str) \o <<Quote>>

\* "key": "value", the members separated by a comma and a line break
RECURSIVE JsonMembers(_, _)
JsonMembers(sub, k) ==
    IF k > Len(JsonKeys) THEN <<>>
    ELSE (IF k = 1 THEN <<>> ELSE <<",">>)
         \o <<Newline, " ">> \o JsonString(<<JsonKeys[k]>>) \o <<":", " ">>
         \o JsonString(sub[JsonKeys[k]])
         \o JsonMembers(sub, k + 1)

JsonObject(sub) == <<"{">> \o JsonMembers(sub, 1) \o <<Newline, "}">>

RECURSIVE JsonElements(_, _)
JsonElements(submissions, i) ==
    IF i > Len(submissions) THEN <<>>
    ELSE (IF i = 1 THEN <<>> ELSE <<",">>)
         \o <<Newline, " ">> \o JsonObject(submissions[i])
         \o JsonElements(submissions, i + 1)

\* JSON.stringify(submissions, null, 2): "[]" for the empty array
JSONstringifyText(submissions) ==
    IF submissions = <<>> THEN <<"[", "]">>
    ELSE <<"[">> \o JsonElements(submissions, 1) \o <<Newline, "]">>

\* JSON.parse reads the text one character at a time; st is what it has
\* read so far: the records of the array, the members of the open object,
\* the key and the characters of the open string, and mode, what it expects
\* next ("fail" after a syntax error)
JsonStart == [mode |-> "start", items |-> <<>>, pairs |-> <<>>, key |-> <<>>, str |-> <<>>]

Expect(st, mode) == [st EXCEPT !.mode = mode]

\* the value of a key: the last member that names it, "undefined" without one
Member(pairs, k) ==
    LET at == {j \in 1..Len(pairs) : pairs[j][1] = <<k>>} IN
    IF at = {} THEN <<"undefined">>
    ELSE pairs[CHOOSE j \in at : \A j2 \in at : j2 <= j][2]

\* the closing "}" adds the object to the array
CloseObject(st) ==
    [st EXCEPT !.items = Append(@, [k \in JsonKeySet |-> Member(st.pairs, k)]),
               !.pairs = <<>>,
               !.mode = "afterObject"]

\* the closing quote ends a key or a value
CloseString(st) ==
    IF st.mode = "key"
    THEN [st EXCEPT !.key = st.str, !.str = <<>>, !.mode = "colon"]
    ELSE [st EXCEPT !.pairs = Append(@, <<st.key, st.str>>), !.str = <<>>,
                    !.mode = "afterValue"]

\* a raw line break inside a string and an unknown escape are syntax errors;
\* line breaks and spaces between the tokens are skipped
JsonStep(st, c) ==
    IF st.mode \in {"key", "value"}
    THEN IF c = Quote THEN CloseString(st)
         ELSE IF c = Backslash THEN Expect(st, IF st.mode = "key" THEN "keyEscape" ELSE "valueEscape")
         ELSE IF c = Newline THEN Expect(st, "fail")
         ELSE [st EXCEPT !.str = Append(@, c)]
    ELSE IF st.mode \in {"keyEscape", "valueEscape"}
    THEN IF c \in {"n", Quote, Backslash}
         THEN [st EXCEPT !.str = Append(@, IF c = "n" THEN Newline ELSE c),
                         !.mode = IF st.mode = "keyEscape" THEN "key" ELSE "value"]
         ELSE Expect(st, "fail")
    ELSE IF st.mode = "fail" \/ c \in {Newline, " "} THEN st
    ELSE Expect(st,
         CASE st.mode = "start" /\ c = "[" -> "firstObject"
           [] st.mode = "firstObject" /\ c = "]" -> "end"
           [] st.mode \in {"firstObject", "object"} /\ c = "{" -> "firstKey"
           [] st.mode \in {"firstKey", "nextKey"} /\ c = Quote -> "key"
           [] st.mode = "colon" /\ c = ":" -> "openValue"
           [] st.mode = "openValue" /\ c = Quote -> "value"
           [] st.mode = "afterValue" /\ c = "," -> "nextKey"
           [] st.mode \in {"firstKey", "afterValue"} /\ c = "}" -> "closeObject"
           [] st.mode = "afterObject" /\ c = "," -> "object"
           [] st.mode = "afterObject" /\ c = "]" -> "end"
           [] OTHER -> "fail")

\* the characters lo..hi of the text, read in order from st
\* one character, and the closing of the object where it asks for it
JsonRead(st, c) ==
    IF JsonStep(st, c).mode = "closeObject"
    THEN CloseObject(JsonStep(st, c))
    ELSE JsonStep(st, c)

\* the characters lo..hi of the text, read in order from st: the first half,
\* then, unless it failed, the second half
RECURSIVE JsonScan(_, _, _, _)
JsonScan(text, lo, hi, st) ==
    IF lo > hi THEN st
    ELSE IF lo = hi THEN JsonRead(st, text[lo])
    ELSE LET left == JsonScan(text, lo, (lo + hi) \div 2, st) IN
         IF left.mode = "fail" THEN left
         ELSE JsonScan(text, ((lo + hi) \div 2) + 1, hi, left)

\* JSON.parse(text): the array, or a failure (a SyntaxError)
JSONparseText(text) ==
    LET st == JsonScan(text, 1, Len(text), JsonStart) IN
    [ok |-> st.mode = "end", val |-> st.items]

\* Drain reads the file: empty text counts as "[]", and text that does not
\* parse to an array counts as the empty queue
ReadQueueText(text) ==
    LET r == JSONparseText(IF text = <<>> THEN <<"[", "]">> ELSE text) IN
    IF r.ok THEN r.val ELSE <<>>

\* Intake reads the file: text that does not parse counts as the empty queue
ReadQueueTextIntake(text) ==
    LET r == JSONparseText(text) IN
    IF r.ok THEN r.val ELSE <<>>

\* the strings of at most n characters
RECURSIVE JsonStrings(_)
JsonStrings(n) ==
    IF n = 0 THEN {<<>>}
    ELSE LET shorter == JsonStrings(n - 1) IN
         shorter \cup {Append(str, c) : str \in shorter, c \in JsonChars}

\* a record whose five fields are built from one string: as it is, empty,
\* after and before another character
JsonRecord(str) ==
    [username |-> str,
     name |-> <<>>,
     file_url |-> str \o <<"n">>,
     description |-> <<Quote>> \o str,
     date |-> <<"n", "n">>]

JsonPlain == JsonRecord(<<"n">>)

\* the queues of at most MaxFileLen records, one of them built from any string
JsonQueues ==
    {<<>>} \cup
    { [i \in 1..n |-> IF i = p THEN JsonRecord(str) ELSE JsonPlain] :
        n \in 1..MaxFileLen, p \in 1..MaxFileLen, str \in JsonStrings(MaxStrLen) }

JsonInit ==
    /\ now = StartTime
    /\ queueFile = NoQueueFile
    /\ logDir = {}
    /\ cooldownFile = NoCooldownFile
    /\ docs = [d \in DocNames |-> Marked]
    /\ failedDir = {}
    /\ processedDir = {}
    /\ drainPc = "none"
    /\ wakeAt = 0
    /\ intakes = 0
    /\ crashes = 0
    /\ hist = [ended |-> 0, mutated |-> 0]
    /\ ev = Ev("none", "", "", 0, 0, {})
    /\ warned = <<>>
    /\ pdoc0 = NoDoc
    /\ pdoc = NoDoc
    /\ phist = <<>>
    /\ jq \in JsonQueues
    /\ jtext = <<>>
    /\ jback = <<>>
    /\ jpc = "memory"
    /\ NoOverlap

JsonUnchanged ==
    UNCHANGED <<now, fileVars, drainPc, wakeAt, intakes, crashes, ev, warned, hist,
                pdoc0, pdoc, phist, cPc, cMem, cPopped>>

\* fs.writeFileSync(SUBMISSIONS_FILE, JSON.stringify(submissions, null, 2))
WriteQueueText ==
    /\ jpc = "memory"
    /\ jtext' = JSONstringifyText(jq)
    /\ jpc' = "written"
    /\ UNCHANGED <<jq, jback>>
    /\ JsonUnchanged

\* the next Drain run reads the file
DrainReadsText ==
    /\ jpc = "written"
    /\ jback' = ReadQueueText(jtext)
    /\ jpc' = "read"
    /\ UNCHANGED <<jq, jtext>>
    /\ JsonUnchanged

\* the next Intake run reads the file
IntakeReadsText ==
    /\ jpc = "written"
    /\ jback' = ReadQueueTextIntake(jtext)
    /\ jpc' = "readIntake"
    /\ UNCHANGED <<jq, jtext>>
    /\ JsonUnchanged

JsonNext ==
    \/ WriteQueueText
    \/ DrainReadsText
    \/ IntakeReadsText

JsonSpec == JsonInit /\ [][JsonNext]_vars

-----------------------------------------------------------------------------
(* Overlapping invocations.  Each run is a process of its own: nothing locks
   submissions.json between the readFileSync of a run and its writeFileSync,
   so the reads and writes of an Intake run and of two Drain runs interleave
   in every order.  A run reads the file into memory (cMem), and later
   writes what it computed from that. *)

\* The run that reads the file again where it writes it
HeldFresh(p) == queueFile

\* submissions, as the run parsed it from the file it read
Held(p) == cMem[p].file

\* The inputs of the overlapping Intake run: one the grammar rejects, one the
\* explicit fields queue
OverlapInputs ==
    {in \in IntakeInputs : in.fileUrl \in {Url("gif"), Url("bmp")}}

OverlapRest == <<drainPc, wakeAt, intakes, pdoc0, pdoc, phist, jq, jtext, jback, jpc>>

\* queue_submission main: ensureFileExists and JSON.parse(fs.readFileSync(...))
IntakeReads(impl, in) ==
    /\ cPc["intake"] = "idle"
    /\ queueFile' = ensureFileExists(queueFile)
    /\ cMem' = [cMem EXCEPT !["intake"] =
                   [impl |-> impl, in |-> in, file |-> ensureFileExists(queueFile),
                    wake |-> 0]]
    /\ cPc' = [cPc EXCEPT !["intake"] = "read"]
    /\ UNCHANGED <<now, cooldownFile, docs, logDir, failedDir, processedDir, crashes,
                   ev, warned, hist, cPopped>>
    /\ UNCHANGED OverlapRest

\* queue_submission main from newSubmission to its last writeFileSync
IntakeWrites ==
    /\ cPc["intake"] = "read"
    /\ LET impl == cMem["intake"].impl
           in == cMem["intake"].in
           parses == Held("intake").kind = "array"
           submissions == ParseQueue(Held("intake"))
           new == NewSubmission(impl, in, now)
       IN  IF impl = "js" /\ ~parses
           THEN /\ logDir' = IF new.ok /\ Held("intake").kind = "object"
                             THEN WriteFile(logDir, FileName(now, new.sub.username), new.sub)
                             ELSE logDir
                /\ UNCHANGED <<queueFile, failedDir>>
                /\ ev' = Ev("intake", "", "threw", 1, 0, {"submissions.json"})
           ELSE IF ~new.ok
           THEN /\ RejectedFiles(impl, in, queueFile)
                /\ ev' = Ev("intake", "", "rejected", 0, 0, {"submissions.json"})
           ELSE /\ AcceptedFiles(new.sub, submissions)
                /\ ev' = Ev("intake", "", "accepted", 0, 0, {"submissions.json"})
    /\ cPc' = [cPc EXCEPT !["intake"] = "done"]
    /\ UNCHANGED <<now, cooldownFile, docs, processedDir, crashes, warned, hist, cMem,
                   cPopped>>
    /\ UNCHANGED OverlapRest

\* process_queue main: the gate, ensureFileExists and JSON.parse(fs.readFileSync(...));
\* of the two runs, "drain1" names the one that starts first
DrainReads(p, impl) ==
    /\ cPc[p] = "idle"
    /\ p = "drain2" => cPc["drain1"] # "idle"
    /\ IF CooldownActive(now, readCooldown)
       THEN /\ cPc' = [cPc EXCEPT ![p] = "done"]
            /\ ev' = Ev("drain", impl, "skip", 0, 0, {".cooldown"})
            /\ UNCHANGED <<queueFile, cMem>>
       ELSE /\ queueFile' = ensureFileExists(queueFile)
            /\ cMem' = [cMem EXCEPT ![p] =
                           [impl |-> impl, in |-> NoMem.in,
                            file |-> ensureFileExists(queueFile), wake |-> 0]]
            /\ cPc' = [cPc EXCEPT ![p] = "read"]
            /\ UNCHANGED ev
    /\ UNCHANGED <<now, cooldownFile, docs, logDir, failedDir, processedDir, crashes,
                   warned, hist, cPopped>>
    /\ UNCHANGED OverlapRest

\* process_queue main from submissions.length === 0 to its return or its await
DrainWrites(p) ==
    /\ cPc[p] = "read"
    /\ LET impl == cMem[p].impl
           submissions == ParseQueue(Held(p))
           toProcess == toProcessOf(submissions)
           st == ProcessBatch(impl, toProcess, now,
                    [docs |-> docs, processed |-> processedDir, thrown |-> FALSE,
                     reads |-> {".cooldown", "submissions.json"}, warned |-> <<>>])
       IN  IF Len(submissions) = 0
           THEN /\ cPc' = [cPc EXCEPT ![p] = "sleeping"]
                /\ cMem' = [cMem EXCEPT ![p].wake = now + IDLE_WAIT_MS]
                /\ UNCHANGED <<fileVars, crashes, hist, cPopped>>
                /\ warned' = <<>>
                /\ ev' = Ev("drain", impl, "sleep", 0, 0, {".cooldown", "submissions.json"})
           ELSE /\ cPc' = [cPc EXCEPT ![p] = "done"]
                /\ crashes' = IF st.thrown THEN crashes + 1 ELSE crashes
                /\ docs' = st.docs
                /\ processedDir' = st.processed
                /\ queueFile' = IF st.thrown THEN queueFile
                                ELSE JSONstringify(remainingOf(submissions))
                /\ cooldownFile' = IF st.thrown THEN cooldownFile ELSE writeCooldown(now)
                /\ cPopped' = IF st.thrown THEN cPopped ELSE cPopped \o toProcess
                /\ hist' = [ended |-> now,
                            mutated |-> IF st.docs # docs THEN now ELSE hist.mutated]
                /\ UNCHANGED <<logDir, failedDir, cMem>>
                /\ warned' = st.warned
                /\ ev' = IF st.thrown
                         THEN Ev("drain", impl, "throw", 1, 0, st.reads)
                         ELSE Ev("drain", impl, "process", 0, Len(toProcess), st.reads)
    /\ UNCHANGED now
    /\ UNCHANGED OverlapRest

\* process_queue main after await sleep(IDLE_WAIT_MS)
DrainWakes(p) ==
    /\ cPc[p] = "sleeping"
    /\ now >= cMem[p].wake
    /\ cooldownFile' = writeCooldown(now)
    /\ cPc' = [cPc EXCEPT ![p] = "done"]
    /\ hist' = [hist EXCEPT !.ended = now]
    /\ ev' = Ev("drain", "", "idle", 0, 0, {".cooldown", "submissions.json"})
    /\ UNCHANGED <<now, queueFile, docs, logDir, failedDir, processedDir, crashes, warned,
                   cMem, cPopped>>
    /\ UNCHANGED OverlapRest

IntakeReadStep == \E impl \in IntakeImpls, in \in OverlapInputs : IntakeReads(impl, in)
DrainReadStep == \E p \in DrainProcs, impl \in DrainImpls : DrainReads(p, impl)
DrainWriteStep == \E p \in DrainProcs : DrainWrites(p)
DrainWakeStep == \E p \in DrainProcs : DrainWakes(p)

OverlapNext ==
    \/ IntakeReadStep
    \/ IntakeWrites
    \/ DrainReadStep
    \/ DrainWriteStep
    \/ DrainWakeStep
    \/ Tick

OverlapSpec == Init /\ [][OverlapNext]_vars

-----------------------------------------------------------------------------
(* The pipeline for ever: serialized invocations, a clock that never stops
   and a Drain that is invoked again and again.  Date.now() has no bound.  The
   program reads the clock to compare it with the cooldown marker and with
   its timer, and to stamp records and file names; once the clock of the
   model stands at its last value, the passing of TickMs moves the marker,
   the timer and the history TickMs into the past instead, and no further
   than COOLDOWN_MS ago: to the program, which tests now - last < COOLDOWN_MS
   and waits IDLE_WAIT_MS < COOLDOWN_MS, all older times are alike. *)

LastTime == StartTime + MaxTicks * TickMs

\* a time of the past, TickMs later (0: never)
Aged(t) ==
    IF t = 0 THEN 0
    ELSE IF t - TickMs > LastTime - COOLDOWN_MS THEN t - TickMs
    ELSE LastTime - COOLDOWN_MS

LiveTick ==
    /\ IF now < LastTime
       THEN /\ now' = now + TickMs
            /\ UNCHANGED <<cooldownFile, wakeAt, hist>>
       ELSE /\ now' = now
            /\ cooldownFile' = IF cooldownFile.exists
                               THEN writeCooldown(Aged(readCooldown)) ELSE cooldownFile
            /\ wakeAt' = Aged(wakeAt)
            /\ hist' = [ended |-> Aged(hist.ended), mutated |-> Aged(hist.mutated)]
    /\ UNCHANGED <<queueFile, docs, logDir, failedDir, processedDir, drainPc, intakes,
                   crashes, ev, warned>>
    /\ UNCHANGED harnessVars

LiveNext ==
    \/ IntakeStep
    \/ DrainStep
    \/ DrainWake
    \/ LiveTick

\* the queue file is missing: the queue holds what Intake appends
LiveInit ==
    /\ Init
    /\ queueFile = NoQueueFile

\* The scheduler invokes Drain again and again: weak fairness of DrainStep,
\* written out with the condition under which a run can start (no earlier run
\* is waiting on its timer)
DrainFair == []<>(drainPc # "none") \/ []<><<DrainStep>>_vars

\* Drain is invoked again and again, timers fire, time passes
LiveSpec ==
    /\ LiveInit
    /\ [][LiveNext]_vars
    /\ DrainFair
    /\ WF_vars(DrainWake)
    /\ WF_vars(LiveTick)

-----------------------------------------------------------------------------
(* Claims *)

GateOpen == ~(now - readCooldown < COOLDOWN_MS)
Min(a, b) == IF a < b THEN a ELSE b

\* C1: a Drain invocation removes at most MAX_PER_RUN records from the
\* persisted queue, and one that is not skipped and finds k <= MAX_PER_RUN
\* records removes all k: the persisted queue is empty afterwards.
C1_BatchBound ==
    [][DrainStep =>
          /\ Len(Queue) - Len(Queue') <= MAX_PER_RUN
          /\ (GateOpen /\ Len(Queue) <= MAX_PER_RUN) => Queue' = <<>>]_vars

\* C2: a Process run on queue q handles its first min(|q|, MAX_PER_RUN)
\* records and persists exactly the rest of q, in its order.
C2_SuffixPersisted ==
    [][(DrainStep /\ GateOpen /\ Queue # <<>>) =>
          Queue' = SubSeq(Queue, Min(Len(Queue), MAX_PER_RUN) + 1, Len(Queue))]_vars

\* C3: a Drain that starts less than COOLDOWN_MS after the previous run that
\* got past the gate ended changes no document, and the document changes of
\* two runs are at least COOLDOWN_MS apart.
C3_MutationsApart ==
    [][DrainStep =>
          /\ (hist.ended > 0 /\ now - hist.ended < COOLDOWN_MS) => docs' = docs
          /\ (docs' # docs /\ hist.mutated > 0) => now - hist.mutated >= COOLDOWN_MS]_vars

\* C4: a Drain invocation that starts while now - lastCooldownTimestamp <
\* COOLDOWN_MS changes no file (queue, documents, logs, cooldown marker) and
\* reads the cooldown file only.
C4_SkipChangesNothing ==
    [][(DrainStep /\ ~GateOpen) =>
          /\ UNCHANGED <<queueFile, cooldownFile, docs, logDir, failedDir, processedDir>>
          /\ drainPc' = "none"
          /\ ev'.reads = {".cooldown"}]_vars

C4_Witness ==
    /\ ev.op = "drain"
    /\ ev.outcome = "skip"
    /\ Queue # <<>>
    /\ ~GateOpen

\* C5: a Drain invocation that gets past the gate and finds the queue empty
\* changes no document, neither before nor after its wait, and has set the
\* cooldown marker to the current time when it returns.
C5_IdleArmsCooldown ==
    [][/\ (DrainStep /\ GateOpen /\ Queue = <<>>) =>
              (docs' = docs /\ drainPc' = "sleeping" /\ Queue' = <<>>)
       /\ DrainWake => (docs' = docs /\ readCooldown' = now /\ drainPc' = "none")]_vars

C5_Witness ==
    /\ ev.op = "drain"
    /\ ev.outcome = "idle"
    /\ readCooldown = now
    /\ \A d \in DocNames : docs[d] = Marked

-----------------------------------------------------------------------------
(* Claims on the insertion harness *)

\* The marker of the document the harness started from, 0 if it has none
MarkerOf(html) ==
    IF \E i \in 1..Len(html) : html[i] = OpenDiv("submissions")
    THEN CHOOSE i \in 1..Len(html) :
            /\ html[i] = OpenDiv("submissions")
            /\ \A j \in 1..(i - 1) : html[j] # OpenDiv("submissions")
    ELSE 0

RECURSIVE Stack(_)
\* The fragments of h as they lie in the document, the last inserted first
Stack(h) ==
    IF h = <<>> THEN <<>>
    ELSE Stack(Tail(h)) \o <<NL>> \o Head(h) \o <<NL>>

\* C6: after any sequence of successful insertions into any document, the
\* document reads: everything up to and including the marker's opening tag,
\* then the fragments newest first, then the content that was there before.
C6_NewestFirst ==
    phist # <<>> =>
        LET html0 == pdoc0.html
            m == MarkerOf(html0)
        IN  /\ m # 0
            /\ pdoc.html = SubSeq(html0, 1, m) \o Stack(phist)
                               \o SubSeq(html0, m + 1, Len(html0))

-----------------------------------------------------------------------------
(* Claims on Intake and routing *)

\* C7: an Intake call that rejects its input leaves the persisted queue as it
\* was and adds exactly one entry to the failure ledger.
C7_RejectionLedgered ==
    [][(IntakeStep /\ ev'.outcome = "rejected") =>
          /\ Queue' = Queue
          /\ logDir' = logDir
          /\ Cardinality(failedDir') = Cardinality(failedDir) + 1]_vars

\* C8: an Intake call that accepts its input leaves the persisted queue q
\* followed by the one new record, and adds the audit log entry of that
\* record, named by the time and the username, to the success log.
C8_AcceptedAppended ==
    [][\A impl \in IntakeImpls, in \in IntakeInputs :
          (Intake(impl, in) /\ ev'.outcome = "accepted") =>
              LET rec == NewSubmission(impl, in, now).sub
                  entry == [name |-> FileName(now, rec.username), content |-> rec]
              IN  /\ Queue' = Queue \o <<rec>>
                  /\ entry \notin logDir
                  /\ logDir' = logDir \cup {entry}
                  /\ failedDir' = failedDir]_vars

C8_Witness ==
    /\ ev.op = "intake"
    /\ ev.outcome = "accepted"
    /\ Len(Queue) >= 2
    /\ Queue[1] # Queue[Len(Queue)]
    /\ \E f \in logDir : f.content = Queue[Len(Queue)] /\ f.name.ts = now

\* C9: every Intake call ends accepted or rejected, with exit code 0, and
\* leaves a new entry in the success log or in the failure ledger.
C9_AlwaysLogged ==
    [][IntakeStep =>
          /\ ev'.outcome \in {"accepted", "rejected"}
          /\ ev'.exit = 0
          /\ (logDir' # logDir \/ failedDir' # failedDir)]_vars

\* The extension the claim speaks of: what follows the last dot of the URL
\* cut at its query string, in lower case
C10_Ext(url) ==
    LET cut == IF \E i \in 1..Len(url) : url[i] = "?"
               THEN CHOOSE i \in 1..Len(url) :
                       url[i] = "?" /\ \A j \in 1..(i - 1) : url[j] # "?"
               ELSE Len(url) + 1
    IN  IF cut > 2 /\ url[cut - 2] = "." THEN url[cut - 1] ELSE ""

C10_Mapping(ext) ==
    CASE ext \in {"mp3", "MP3"} -> "audio.html"
      [] ext \in {"gif", "GIF"} -> "gifs.html"
      [] ext \in {"jpg", "JPG", "jpeg", "png", "webp"} -> "images.html"
      [] OTHER -> Null

\* C10: every media element a Drain run has put into a document stands in
\* the document the mapping gives for the extension of its URL, the query
\* string ignored.
C10_RoutedByExtension ==
    \A d \in DocNames :
        \A i \in 1..Len(docs[d].html) :
            docs[d].html[i].t \in {"img", "audio"} =>
                C10_Mapping(C10_Ext(docs[d].html[i].src)) = d

-----------------------------------------------------------------------------
(* Claims on the faults of a Process run *)

\* The records a Drain run that starts now takes off the queue
Popped == SubSeq(Queue, 1, Min(Len(Queue), MAX_PER_RUN))

\* The elements of doc that show or link the file at url
MediaOf(doc, url) ==
    {j \in 1..Len(doc.html) : doc.html[j].t \in {"img", "audio", "a"} /\ doc.html[j].src = url}

\* url ends in a dot and an extension the mapping of C10 does not hold
C11_EndsUnmapped(url) ==
    /\ Len(url) >= 2
    /\ url[Len(url) - 1] = "."
    /\ C10_Mapping(url[Len(url)]) = Null

\* C11: when a Drain run pops a record whose URL ends in an unmapped
\* extension, no document gains an element for it, the run warns about it,
\* and the queue persisted afterwards starts behind it.
C11_UnmappedDropped ==
    [][(DrainStep /\ GateOpen) =>
          \A i \in 1..Len(Popped) :
              C11_EndsUnmapped(Popped[i].file_url) =>
                  /\ \A d \in DocNames :
                        Cardinality(MediaOf(docs'[d], Popped[i].file_url))
                            = Cardinality(MediaOf(docs[d], Popped[i].file_url))
                  /\ \E k \in 1..Len(warned') : warned'[k] = Popped[i].file_url
                  /\ \E k \in i..Len(Queue) :
                        Queue' = SubSeq(Queue, k + 1, Len(Queue))]_vars

\* doc holds the opening tag of the marker element
HasMarker(doc) == doc.exists /\ MarkerOf(doc.html) # 0

\* C12: when a Drain run pops a record whose document is missing or holds
\* no marker, the document is left as it was, and the queue persisted
\* afterwards is what lay behind the batch: the record is not queued again
\* and the rest is kept.
C12_NoMarkerNoWrite ==
    [][(DrainStep /\ GateOpen) =>
          \A i \in 1..Len(Popped) :
              LET d == C10_Mapping(C10_Ext(Popped[i].file_url))
              IN  (d \in DocNames /\ ~HasMarker(docs[d])) =>
                      /\ docs'[d] = docs[d]
                      /\ Queue' = SubSeq(Queue, Len(Popped) + 1, Len(Queue))]_vars

\* C13: a Drain run that gets past the gate and finds records leaves the
\* cooldown marker at the current time, whatever became of the insertions,
\* so that a Drain started right after it is inside the window.
C13_ProcessArmsCooldown ==
    [][(DrainStep /\ GateOpen /\ Queue # <<>>) =>
          /\ cooldownFile'.exists
          /\ cooldownFile'.text = String(now)
          /\ ~GateOpen']_vars

\* C14: no step makes the cooldown marker smaller, and none removes it.
C14_CooldownMonotone ==
    [][/\ readCooldown' >= readCooldown
       /\ cooldownFile.exists => cooldownFile'.exists]_vars

\* A second Process run has just written the marker over that of the first
C14_Witness ==
    /\ ev.op = "drain"
    /\ ev.outcome = "process"
    /\ crashes = 0
    /\ Cardinality(logDir) > MAX_PER_RUN
    /\ Queue = <<>>
    /\ readCooldown = now
    /\ now >= StartTime + COOLDOWN_MS

-----------------------------------------------------------------------------
(* Claims on the documents *)

\* The opening tags of marker elements in html
Markers(html) == {i \in 1..Len(html) : html[i] = OpenDiv("submissions")}

\* C15: a document that held exactly one marker element holds exactly one
\* after any sequence of insertions, whatever the records say.
C15_OneMarker ==
    (pdoc0.exists /\ Cardinality(Markers(pdoc0.html)) = 1) =>
        Cardinality(Markers(pdoc.html)) = 1

\* new is old with text added at one place: what old held before that place
\* and what it held behind it are kept
AddedAtOnePlace(old, new) ==
    /\ Len(new) >= Len(old)
    /\ \E p \in 0..Len(old) :
          /\ SubSeq(new, 1, p) = SubSeq(old, 1, p)
          /\ SubSeq(new, Len(new) - (Len(old) - p) + 1, Len(new))
                = SubSeq(old, p + 1, Len(old))

\* new is old with the fragment of sub, a line break before and after it,
\* spliced in at one place
FragmentSpliced(old, new, sub) ==
    \E p \in 0..Len(old), impl \in DrainImpls :
        new = SubSeq(old, 1, p) \o <<NL>> \o buildHtmlSnippet(impl, sub, now) \o <<NL>>
                \o SubSeq(old, p + 1, Len(old))

\* C16: a Drain run changes a document only by adding text at the insertion
\* point, keeping all that stood before and behind it; a run of one record
\* adds exactly the fragment of that record; a document no record of the
\* batch is routed to is not touched.
C16_InsertionOnlyAdds ==
    [][DrainStep =>
          \A d \in DocNames :
              /\ docs'[d].exists = docs[d].exists
              /\ AddedAtOnePlace(docs[d].html, docs'[d].html)
              /\ (\A i \in 1..Len(Popped), impl \in DrainImpls :
                      DecideTarget(impl, Popped[i]) # d) => docs'[d] = docs[d]
              /\ (Len(Popped) = 1 /\ docs'[d] # docs[d]) =>
                      FragmentSpliced(docs[d].html, docs'[d].html, Popped[1])]_vars

\* A run of a full batch has added to two documents and left the third
C16_Witness ==
    /\ ev.op = "drain"
    /\ ev.outcome = "process"
    /\ ev.n = MAX_PER_RUN
    /\ docs["images.html"] = Marked
    /\ Len(docs["gifs.html"].html) > Len(Marked.html)
    /\ Len(docs["audio.html"].html) > Len(Marked.html)

\* C17: in a Drain run that gets past the gate and finds records, whatever
\* goes wrong with one record, every record of the batch that the mapping
\* routes to a document with a marker gets its element there, the queue
\* persisted afterwards is what lay behind the batch, the cooldown marker is
\* at the current time and the run ends with exit code 0.
C17_FaultsContained ==
    [][(DrainStep /\ GateOpen /\ Queue # <<>>) =>
          /\ \A i \in 1..Len(Popped) :
                LET url == Popped[i].file_url
                    d == C10_Mapping(C10_Ext(url))
                IN  (d \in DocNames /\ HasMarker(docs[d])) =>
                        Cardinality(MediaOf(docs'[d], url)) > Cardinality(MediaOf(docs[d], url))
          /\ Queue' = SubSeq(Queue, Len(Popped) + 1, Len(Queue))
          /\ readCooldown' = now
          /\ ev'.exit = 0]_vars

\* C18: a Drain invocation ends as Skip exactly when the cooldown is active,
\* as Idle (the wait, then the return) exactly when the gate is open and the
\* queue empty, as Process exactly when the gate is open and the queue is not
\* empty, and with exit code 0 in each case.
C18_ThreeOutcomes ==
    [][/\ DrainStep =>
             /\ ev'.exit = 0
             /\ ev'.outcome \in {"skip", "sleep", "process"}
             /\ ev'.outcome = "skip" <=> ~GateOpen
             /\ ev'.outcome = "sleep" <=> (GateOpen /\ Queue = <<>>)
             /\ ev'.outcome = "process" <=> (GateOpen /\ Queue # <<>>)
       /\ DrainWake => (drainPc = "sleeping" /\ ev'.outcome = "idle" /\ ev'.exit = 0)]_vars

-----------------------------------------------------------------------------
(* Claims on the audit log *)

C20_RoundTrip ==
    /\ jpc \in {"read", "readIntake"} => jback = jq
    /\ jpc # "memory" =>
          /\ JSONparseText(jtext).ok
          /\ JSONparseText(jtext).val = jq

C20_Witness ==
    /\ jpc = "read"
    /\ Len(jq) = MaxFileLen
    /\ jback = jq
    /\ jq[MaxFileLen].username = <<Backslash, "n">>
    /\ jq[1] = JsonPlain

InSeq(r, q) == \E i \in 1..Len(q) : q[i] = r

\* C21: Intake and Drain read-modify-write the queue file without mutual
\* exclusion, and overlapping invocations lose or repeat records.  Whenever
\* a Drain run writes the queue, every record that another run added to the
\* file since this run read it is gone from the file, and unless it was
\* popped before it is gone without having been popped; whenever an Intake run writes the queue, every record it had read
\* that a Drain run popped in between is back in the file.
C21_LostUpdates ==
    [][/\ \A p \in DrainProcs :
            (DrainWrites(p) /\ ev'.outcome = "process") =>
                \A i \in 1..Len(Queue) :
                    ~InSeq(Queue[i], ParseQueue(cMem[p].file)) =>
                        /\ ~InSeq(Queue[i], Queue')
                        /\ ~InSeq(Queue[i], cPopped) => ~InSeq(Queue[i], cPopped')
       /\ (IntakeWrites /\ ev'.outcome = "accepted") =>
            \A i \in 1..Len(ParseQueue(cMem["intake"].file)) :
                ~InSeq(ParseQueue(cMem["intake"].file)[i], Queue) =>
                    InSeq(ParseQueue(cMem["intake"].file)[i], Queue')]_vars

\* every run is over; a record of the audit log is neither queued nor was it
\* popped, and the same batch was popped twice
C21_Witness ==
    /\ \A p \in Procs : cPc[p] = "done"
    /\ \E f \in logDir : ~InSeq(f.content, Queue) /\ ~InSeq(f.content, cPopped)
    /\ Len(cPopped) = 2 * MAX_PER_RUN
    /\ ev.outcome = "process"

\* C22: a Drain invocation that passes the cooldown gate and finds the queue
\* file missing creates it as the empty queue, and one that finds it
\* unparseable or not an array treats the queue as empty and leaves the file
\* as it is; in both cases the run is an Idle run: it pops nothing, mutates no
\* document, starts the idle wait without touching the cooldown, and ends
\* with exit code 0 once the wait is over.
C22_BadQueueIsEmpty ==
    [][/\ (DrainStep /\ GateOpen /\ (~queueFile.exists \/ queueFile.kind # "array")) =>
            /\ ev'.outcome = "sleep"
            /\ ev'.exit = 0
            /\ drainPc' = "sleeping"
            /\ docs' = docs
            /\ cooldownFile' = cooldownFile
            /\ processedDir' = processedDir
            /\ IF queueFile.exists THEN queueFile' = queueFile
               ELSE queueFile' = [exists |-> TRUE, kind |-> "array", items |-> <<>>]
       /\ (DrainWake /\ (queueFile \in CorruptQueueFiles \/ Queue = <<>>)) =>
            /\ ev'.outcome = "idle"
            /\ ev'.exit = 0
            /\ docs' = docs
            /\ queueFile' = queueFile]_vars

C22_Witness ==
    /\ ev.op = "drain"
    /\ ev.outcome = "idle"
    /\ queueFile \in CorruptQueueFiles
    /\ cooldownFile.exists
    /\ \A d \in DocNames : docs[d] \in {Marked, Unmarked, NoDoc}

\* C23: in an Idle run the cooldown is armed only after the idle wait has
\* elapsed.  A run that starts at time t and finds the queue empty sets its
\* timer to t + IDLE_WAIT_MS and leaves the cooldown file alone; nothing
\* writes the cooldown file or moves the timer while the run waits; when the
\* run resumes it writes a marker of at least t + IDLE_WAIT_MS and touches
\* neither the queue nor a document, so a record queued during the wait is
\* not processed by that run.
C23_ArmedAfterWait ==
    [][/\ (DrainStep /\ GateOpen /\ Queue = <<>>) =>
            /\ drainPc' = "sleeping"
            /\ wakeAt' = now + IDLE_WAIT_MS
            /\ cooldownFile' = cooldownFile
       /\ (drainPc = "sleeping" /\ drainPc' = "sleeping") =>
            /\ cooldownFile' = cooldownFile
            /\ wakeAt' = wakeAt
            /\ docs' = docs
       /\ (drainPc = "sleeping" /\ drainPc' # "sleeping") =>
            /\ cooldownFile'.exists
            /\ readCooldown' >= wakeAt
            /\ readCooldown' = now
            /\ queueFile' = queueFile
            /\ docs' = docs
            /\ processedDir' = processedDir]_vars

\* an Idle run is over, and the record queued while it waited is still queued
C23_Witness ==
    /\ ev.op = "drain"
    /\ ev.outcome = "idle"
    /\ drainPc = "none"
    /\ Len(Queue) = 1
    /\ Queue[1].date.ts > wakeAt - IDLE_WAIT_MS
    /\ Queue[1].date.ts < readCooldown
    /\ readCooldown >= wakeAt

\* C24: rendering agrees with routing: the media element of every fragment
\* is an audio player exactly when the extension of its URL, in any case and
\* with the query string ignored, is the audio type, and an image element
\* otherwise.
C24_RenderingAgrees ==
    \A i \in 1..Len(phist) :
        \A j \in 1..Len(phist[i]) :
            phist[i][j].t \in {"img", "audio"} =>
                (phist[i][j].t = "audio"
                    <=> C10_Mapping(C10_Ext(phist[i][j].src)) = "audio.html")

\* C25: Intake uses the fallback channel only when no free-text body is
\* supplied.  With a non-empty body the grammar decides alone: the call
\* queues the record the grammar gives, or is a rejection when the grammar
\* gives none, whatever fileUrl holds.  With an empty body and a non-empty
\* fileUrl the call queues the record built from the caller-supplied
\* username, fileUrl and description.  With neither, the call is a rejection
\* and the queue is left as it is.
C25_ChannelChoice ==
    [][\A impl \in IntakeImpls, in \in IntakeInputs :
          Intake(impl, in) =>
              LET parsed == IF impl = "js"
                            THEN parseIssueBodyJs(EnvUsername(in.username), in.body, now)
                            ELSE parseIssueBody(EnvUsername(in.username), in.body)
                  direct == Sub(EnvUsername(in.username), EnvUsername(in.username),
                                in.fileUrl, in.description, IsoDate(now))
              IN  /\ in.body # <<>> =>
                       IF parsed.ok
                       THEN ev'.outcome = "accepted" /\ Queue' = Append(Queue, parsed.sub)
                       ELSE ev'.outcome = "rejected" /\ Queue' = Queue
                  /\ (in.body = <<>> /\ in.fileUrl # <<>>) =>
                       ev'.outcome = "accepted" /\ Queue' = Append(Queue, direct)
                  /\ (in.body = <<>> /\ in.fileUrl = <<>>) =>
                       ev'.outcome = "rejected" /\ Queue' = Queue]_vars

\* the records Intake can append
C26_Records ==
    {NewSubmission(impl, in, StartTime + k * TickMs).sub :
        impl \in IntakeImpls, in \in IntakeInputs, k \in 0..MaxTicks}

\* C26: with serialized invocations, a clock that keeps advancing and a Drain
\* that is invoked again and again, every record in the queue is eventually
\* popped: no record stays queued for ever.
C26_EventuallyPopped ==
    \A r \in C26_Records : InSeq(r, Queue) ~> ~InSeq(r, Queue)

\* how often record r stands in queue q
C27_Count(r, q) == Cardinality({i \in 1..Len(q) : q[i] = r})

\* the media elements of the documents that show the file at url
C27_Inserted(ds, url) ==
    {<<d, j>> \in DocNames \X (1..(4 + 8 * (BacklogLen + MaxIntakes) * (MaxCrashes + 1))) :
        /\ ds[d].exists
        /\ j <= Len(ds[d].html)
        /\ ds[d].html[j].t \in {"img", "audio"}
        /\ ds[d].html[j].src = url}

\* the accepted records that name the file at url
C27_Accepted(log, url) == {f \in log : f.content.file_url = url}

\* C27: with serialized invocations, a Drain run leaves no more media
\* elements for a file in the documents than records naming it were accepted
\* (a record's fragment is inserted at most once), and a run that gets past
\* the gate and finds records leaves none of its batch in the persisted
\* queue (a record is popped by one run only).
C27_ExactlyOnce ==
    [][DrainStep =>
          /\ \A f \in logDir :
                Cardinality(C27_Inserted(docs', f.content.file_url))
                    <= Cardinality(C27_Accepted(logDir, f.content.file_url))
          /\ (GateOpen /\ Queue # <<>>) =>
                \A i \in 1..Len(Popped) :
                    C27_Count(Popped[i], Queue') =
                        C27_Count(Popped[i], Queue) - C27_Count(Popped[i], Popped)]_vars

====
